---------------------------- MODULE Spec2Model ----------------------------
(***************************************************************************)
(* Model of package health as used by ancientlore/topdog:                  *)
(*   Tester.Run, Tester.ServeHTTP, Results.Failed                          *)
(*   Ticker.Start, Stop, run, runOnce, GetResults, ServeHTTP               *)
(* Time is abstracted: the deadline of a run and the ticks of a cycle are  *)
(* events that may happen at any moment the code allows them.              *)
(***************************************************************************)
EXTENDS Integers, FiniteSets, Sequences, TLC

\* ------------------------------------------------------------------ bounds
\* Number of calls of Tester.Run in one behaviour.
MaxRuns == 2
\* Number of background goroutines Ticker.Start starts in one behaviour.
MaxCycles == 2

\* ------------------------------------------------------------ probe universe
Names == {"disk", "net"}

\* What a TestFunc does when it is called: return nil, return an error, or
\* panic with an error value, a string, another value, or nil.
Behaviours ==
    { [kind |-> "ok",         text |-> ""],
      [kind |-> "err",        text |-> "unreachable"],
      [kind |-> "err",        text |-> "refused"],
      [kind |-> "panicErr",   text |-> "nil map"],
      [kind |-> "panicStr",   text |-> "oops"],
      [kind |-> "panicOther", text |-> ""],
      [kind |-> "panicNil",   text |-> ""] }

\* The TestFuncs maps a Tester can be configured with.
TestFuncs == UNION { [S -> Behaviours] : S \in SUBSET Names }

\* ctx.Err() texts of package context.
DeadlineExceeded == "context deadline exceeded"
Canceled == "context canceled"

\* What runtime.Stack writes: a non-empty trace of the goroutine.
StackTrace == "goroutine 23 [running]:"

RunIds == 1..MaxRuns
CycleIds == 1..MaxCycles

\* The goroutines that call the methods of one Ticker.
Callers == {"a", "b"}

VARIABLES
    Tests,        \* Tester.Tests: name -> behaviour of the TestFunc
    Log,          \* Tester.Log != nil
    ctxCanceled,  \* Tester.Context has been canceled by its owner
    nextRun,      \* number of calls of Run so far
    runs,         \* per call of Run: the coordinator's locals and position
    task,         \* per call of Run and name: the probe goroutine's position
    crashed,      \* a panic escaped a goroutine (the process died)
    http,         \* Tester.ServeHTTP: the request being served
    resp,         \* Tester.ServeHTTP: the last response written
    tick,         \* Ticker: results (0 is nil, r the map Run r returned), cancel
    lock,         \* Ticker.lock between steps: w (held by a writer), r (readers)
    cycles,       \* per call of "go tick.run(ctx)": the goroutine and its ctx
    nextCycle,    \* number of goroutines started by Start so far
    callers,      \* the goroutines that call the Ticker's methods
    tresp         \* Ticker.ServeHTTP: the last response written

tickVars == <<tick, lock, cycles, nextCycle, callers, tresp>>

vars == <<Tests, Log, ctxCanceled, nextRun, runs, task, crashed, http, resp,
          tickVars>>

\* ------------------------------------------------------------------ Results
EmptyResults == [k \in {} |-> 0]

\* (variant: the map is made anew for each write and keeps the last entry
\* only)
MapSetLastOnly(m, k, v) == [x \in {k} |-> v]

\* results[k] = v
MapSet(m, k, v) == [x \in (DOMAIN m) \cup {k} |-> IF x = k THEN v ELSE m[x]]

Result(h, m, e) == [Healthy |-> h, Message |-> m, Error |-> e]

\* Results.Failed: range over the map, return true at the first entry that
\* is not healthy, false when the range ends.
\* (variant: the range stops at the first entry, whatever it holds)
FailedFirstOnly(r, keys) ==
    IF keys = {} THEN FALSE
    ELSE LET k == CHOOSE x \in keys : TRUE
         IN  r[k].Healthy # TRUE

RECURSIVE FailedFrom(_, _)
FailedFrom(r, keys) ==
    IF keys = {} THEN FALSE
    ELSE LET k == CHOOSE x \in keys : TRUE
         IN  IF r[k].Healthy # TRUE THEN TRUE
             ELSE FailedFrom(r, keys \ {k})

Failed(r) == FailedFrom(r, DOMAIN r)

\* json.Marshal of one Result: "healthy" always, "message" and "error"
\* only when non-empty (omitempty).
MarshalResult(x) ==
    { <<"healthy", x.Healthy>> }
    \cup (IF x.Message # "" THEN { <<"message", x.Message>> } ELSE {})
    \cup (IF x.Error # "" THEN { <<"error", x.Error>> } ELSE {})

\* json.Marshal of a Results map: an object keyed by test name.
Marshal(r) == [k \in DOMAIN r |-> MarshalResult(r[k])]

\* ------------------------------------------------------- the probe goroutine
\* desc of the recover branch: the error's text, the string, or "PANIC".
PanicDesc(b) ==
    CASE b.kind = "panicErr" -> b.text
      [] b.kind = "panicStr" -> b.text
      [] OTHER               -> "PANIC"

\* (variant: the error's text lands in Error, not in Message)
OutcomeTextInError(b) ==
    CASE b.kind = "ok"  -> Result(TRUE, "", "")
      [] b.kind = "err" -> Result(FALSE, "", b.text)
      [] OTHER          -> Result(FALSE, PanicDesc(b), StackTrace)

\* The Result a probe goroutine sends on the channel.
Outcome(b) ==
    CASE b.kind = "ok"  -> Result(TRUE, "", "")
      [] b.kind = "err" -> Result(FALSE, b.text, "")
      [] OTHER          -> Result(FALSE, PanicDesc(b), StackTrace)

\* The Result the deadline branch writes for a test with no result.
DeadlineResult(err) == Result(FALSE, err, "")

Panics(b) == b.kind \in {"panicErr", "panicStr", "panicOther", "panicNil"}

\* recover() returns nil for panic(nil) (Go 1.14, the Dockerfile's
\* toolchain): the deferred function then sends nothing.
Recovered(b) == b.kind # "panicNil"

\* ------------------------------------------------------------- Tester.Run
NoOwner == [kind |-> "none", id |-> 0]

NoRun == [pc |-> "none", owner |-> NoOwner, results |-> EmptyResults,
          count |-> 0, todo |-> {}, err |-> "", resume |-> "none",
          logged |-> [k \in Names |-> 0]]

\* Run up to the collecting loop: make(Results); with no tests return at
\* once, else derive the context and start one goroutine per test.
RunCall(r, o) ==
    /\ r = nextRun + 1
    /\ r \in RunIds
    /\ nextRun' = r
    /\ runs' = [runs EXCEPT ![r] =
          [NoRun EXCEPT !.owner = o,
                        !.pc = IF DOMAIN Tests = {} THEN "returned" ELSE "select",
                        !.err = IF ctxCanceled /\ DOMAIN Tests # {}
                                THEN Canceled ELSE ""]]
    /\ task' = [task EXCEPT ![r] =
          [n \in Names |-> IF n \in DOMAIN Tests THEN "running" ELSE "none"]]

\* The position of the coordinator after one pass of the collecting loop.
AfterCollect(count) ==
    IF count < Cardinality(DOMAIN Tests) THEN "select" ELSE "returned"

\* t.Log(name, ...) is called when a logger is configured.
Logged(run, n) == [run.logged EXCEPT ![n] = @ + 1]

\* fun(c) returns: the goroutine is now at its send on the channel.
TaskReturn(r, n) ==
    /\ task[r][n] = "running"
    /\ ~Panics(Tests[n])
    /\ task' = [task EXCEPT ![r][n] = "sending"]
    /\ UNCHANGED <<Tests, Log, ctxCanceled, nextRun, runs, crashed, http, resp, tickVars>>

\* (variant: no deferred recover, the panic ends the process)
TaskPanicUnrecovered(r, n) ==
    /\ task[r][n] = "running"
    /\ Panics(Tests[n])
    /\ crashed' = TRUE
    /\ task' = [task EXCEPT ![r][n] = "done"]
    /\ UNCHANGED <<Tests, Log, ctxCanceled, nextRun, runs, http, resp, tickVars>>

\* fun(c) panics: the deferred function recovers and goes to its send; with
\* recover() = nil it sends nothing and the goroutine ends.
TaskPanic(r, n) ==
    /\ task[r][n] = "running"
    /\ Panics(Tests[n])
    /\ task' = [task EXCEPT ![r][n] =
                   IF Recovered(Tests[n]) THEN "sending" ELSE "done"]
    /\ UNCHANGED <<Tests, Log, ctxCanceled, nextRun, runs, crashed, http, resp, tickVars>>

\* (variant: rc is one channel shared by all calls of Run, so the receive
\* may meet the send of a goroutine of an earlier call)
CollectAnyRun(r, n) ==
    /\ runs[r].pc = "select"
    /\ \E q \in 1..r :
          /\ task[q][n] = "sending"
          /\ task' = [task EXCEPT ![q][n] = "done"]
    /\ LET run == runs[r]
           res == Outcome(Tests[n])
           cnt == run.count + 1
           log == ~res.Healthy /\ Log
       IN  runs' = [runs EXCEPT ![r] =
              [run EXCEPT !.count = cnt,
                          !.results = MapSet(run.results, n, res),
                          !.logged = IF log THEN Logged(run, n) ELSE @,
                          !.resume = IF log THEN AfterCollect(cnt) ELSE @,
                          !.pc = IF log THEN "logging" ELSE AfterCollect(cnt)]]
    /\ UNCHANGED <<Tests, Log, ctxCanceled, nextRun, crashed, http, resp, tickVars>>

\* (variant: the logger is called for every report, healthy or not)
CollectLogsAll(r, n) ==
    /\ runs[r].pc = "select"
    /\ task[r][n] = "sending"
    /\ LET run == runs[r]
           res == Outcome(Tests[n])
           cnt == run.count + 1
       IN  runs' = [runs EXCEPT ![r] =
              [run EXCEPT !.count = cnt,
                          !.results = MapSet(run.results, n, res),
                          !.logged = IF Log THEN Logged(run, n) ELSE @,
                          !.resume = IF Log THEN AfterCollect(cnt) ELSE @,
                          !.pc = IF Log THEN "logging" ELSE AfterCollect(cnt)]]
    /\ task' = [task EXCEPT ![r][n] = "done"]
    /\ UNCHANGED <<Tests, Log, ctxCanceled, nextRun, crashed, http, resp, tickVars>>

\* case r := <-rc: the send of goroutine n and the receive of the
\* coordinator meet (rc is unbuffered).
Collect(r, n) ==
    /\ runs[r].pc = "select"
    /\ task[r][n] = "sending"
    /\ LET run == runs[r]
           res == Outcome(Tests[n])
           cnt == run.count + 1
           log == ~res.Healthy /\ Log
       IN  runs' = [runs EXCEPT ![r] =
              [run EXCEPT !.count = cnt,
                          !.results = MapSet(run.results, n, res),
                          !.logged = IF log THEN Logged(run, n) ELSE @,
                          !.resume = IF log THEN AfterCollect(cnt) ELSE @,
                          !.pc = IF log THEN "logging" ELSE AfterCollect(cnt)]]
    /\ task' = [task EXCEPT ![r][n] = "done"]
    /\ UNCHANGED <<Tests, Log, ctxCanceled, nextRun, crashed, http, resp, tickVars>>

\* The timer of context.WithTimeout fires.
Deadline(r) ==
    /\ runs[r].pc \in {"select", "logging"}
    /\ runs[r].err = ""
    /\ runs' = [runs EXCEPT ![r].err = DeadlineExceeded]
    /\ UNCHANGED <<Tests, Log, ctxCanceled, nextRun, task, crashed, http, resp, tickVars>>

\* The owner of Tester.Context cancels it: every context derived from it
\* that is not done yet is done with Canceled.
CancelContext ==
    /\ ~ctxCanceled
    /\ ctxCanceled' = TRUE
    /\ runs' = [r \in RunIds |->
                  IF runs[r].pc \in {"select", "logging"} /\ runs[r].err = ""
                  THEN [runs[r] EXCEPT !.err = Canceled] ELSE runs[r]]
    /\ cycles' = [c \in DOMAIN cycles |->
                    IF cycles[c].pc # "none"
                    THEN [cycles[c] EXCEPT !.canceled = TRUE] ELSE cycles[c]]
    /\ UNCHANGED <<Tests, Log, nextRun, task, crashed, http, resp,
                   tick, lock, nextCycle, callers, tresp>>

\* (variant: the done branch is taken only once no probe is still running)
CollectDoneWaits(r) ==
    /\ runs[r].pc = "select"
    /\ runs[r].err # ""
    /\ \A n \in Names : task[r][n] # "running"
    /\ runs' = [runs EXCEPT ![r] =
          [@ EXCEPT !.count = Cardinality(DOMAIN Tests),
                    !.todo = DOMAIN Tests,
                    !.pc = "fill"]]
    /\ UNCHANGED <<Tests, Log, ctxCanceled, nextRun, task, crashed, http, resp, tickVars>>

\* case <-done: count = len(t.Tests), and the range over t.Tests begins.
CollectDone(r) ==
    /\ runs[r].pc = "select"
    /\ runs[r].err # ""
    /\ runs' = [runs EXCEPT ![r] =
          [@ EXCEPT !.count = Cardinality(DOMAIN Tests),
                    !.todo = DOMAIN Tests,
                    !.pc = "fill"]]
    /\ UNCHANGED <<Tests, Log, ctxCanceled, nextRun, task, crashed, http, resp, tickVars>>

\* The position after one pass of the range over t.Tests.
AfterFill(todo) == IF todo = {} THEN "returned" ELSE "fill"

\* (variant: the range writes nothing for a test with no result)
FillNothing(r, k2) ==
    /\ runs[r].pc = "fill"
    /\ k2 \in runs[r].todo
    /\ runs' = [runs EXCEPT ![r] =
          [@ EXCEPT !.todo = runs[r].todo \ {k2},
                    !.pc = AfterFill(runs[r].todo \ {k2})]]
    /\ UNCHANGED <<Tests, Log, ctxCanceled, nextRun, task, crashed, http, resp, tickVars>>

\* One pass of "for k2 := range t.Tests" (in any order): a test with no
\* result gets the deadline Result, and is logged.
Fill(r, k2) ==
    /\ runs[r].pc = "fill"
    /\ k2 \in runs[r].todo
    /\ LET run == runs[r]
           rest == run.todo \ {k2}
           ok == k2 \in DOMAIN run.results
           log == ~ok /\ Log
       IN  runs' = [runs EXCEPT ![r] =
              [run EXCEPT !.todo = rest,
                          !.results = IF ok THEN @
                                      ELSE MapSet(@, k2, DeadlineResult(run.err)),
                          !.logged = IF log THEN Logged(run, k2) ELSE @,
                          !.resume = IF log THEN AfterFill(rest) ELSE @,
                          !.pc = IF log THEN "logging" ELSE AfterFill(rest)]]
    /\ UNCHANGED <<Tests, Log, ctxCanceled, nextRun, task, crashed, http, resp, tickVars>>

\* t.Log(...) returns to the coordinator.
LogReturn(r) ==
    /\ runs[r].pc = "logging"
    /\ runs' = [runs EXCEPT ![r].pc = runs[r].resume, ![r].resume = "none"]
    /\ UNCHANGED <<Tests, Log, ctxCanceled, nextRun, task, crashed, http, resp, tickVars>>

\* Run r has returned its Results.
Returned(r) == runs[r].pc = "returned"

\* ------------------------------------------------------- Tester.ServeHTTP
NoResp == [status |-> 0, body |-> EmptyResults, req |-> 0]

\* results := t.Run()  (the call; Run's steps follow)
TesterServeHTTP ==
    /\ http.pc = "idle"
    /\ RunCall(nextRun + 1, [kind |-> "http", id |-> http.req + 1])
    /\ http' = [pc |-> "run", run |-> nextRun + 1, req |-> http.req + 1]
    /\ UNCHANGED <<Tests, Log, ctxCanceled, crashed, resp, tickVars>>

\* Run has returned: the status from results.Failed(), the body from
\* json.Marshal(results).
TesterRespond ==
    /\ http.pc = "run"
    /\ runs[http.run].pc = "returned"
    /\ LET results == runs[http.run].results
       IN  resp' = [status |-> IF Failed(results) THEN 500 ELSE 200,
                    body |-> Marshal(results),
                    req |-> http.req]
    /\ http' = [http EXCEPT !.pc = "idle"]
    /\ UNCHANGED <<Tests, Log, ctxCanceled, nextRun, runs, task, crashed, tickVars>>

\* ------------------------------------------------------------------ Ticker
\* No section of the Ticker's code that runs between Lock and Unlock (or
\* RLock and RUnlock) takes a lock or waits for another goroutine of the
\* program (Ticker.ServeHTTP writes to its client there), so each is one
\* step here: it is taken when the lock can be had and leaves the lock free.
NoCycle == [pc |-> "none", canceled |-> FALSE, pending |-> FALSE, run |-> 0]

\* ref: the map a caller got from GetResults (0 none, -1 the copy made for
\* it, held in copy).
NoCaller == [pc |-> "idle", ref |-> 0, copy |-> EmptyResults]

\* The map a reference to a Results of Run denotes; a nil map ranges as the
\* empty one.
Deref(ref) == IF ref = 0 THEN EmptyResults ELSE runs[ref].results

\* The map a caller holds.
Held(c) == IF callers[c].ref = -1 THEN callers[c].copy
           ELSE Deref(callers[c].ref)

LockFree == ~lock.w /\ lock.r = 0

\* Caller c is inside no method of the Ticker ("stopped": the last of Start
\* and Stop it called was Stop, which has returned).
Idle(c) == callers[c].pc \in {"idle", "stopped"}

\* Calls of Start that have not reached "go tick.run(ctx)" yet.
Starting == {c \in Callers : callers[c].pc = "start"}

\* The body of Stop: under the lock, cancel the stored CancelFunc if there
\* is one and set it to nil.
\* (variant: tick.cancel() is called without the nil check; calling a nil
\* func panics)
StopBodyNoNilCheck ==
    /\ LockFree
    /\ cycles' = IF tick.cancel # 0
                 THEN [cycles EXCEPT ![tick.cancel].canceled = TRUE]
                 ELSE cycles
    /\ tick' = [tick EXCEPT !.cancel = 0]
    /\ crashed' = (crashed \/ tick.cancel = 0)

StopBody ==
    /\ LockFree
    /\ cycles' = IF tick.cancel # 0
                 THEN [cycles EXCEPT ![tick.cancel].canceled = TRUE]
                 ELSE cycles
    /\ tick' = [tick EXCEPT !.cancel = 0]
    /\ crashed' = crashed

\* Stop, called by c.
Stop(c) ==
    /\ Idle(c)
    /\ StopBody
    /\ callers' = [callers EXCEPT ![c].pc = "stopped"]
    /\ UNCHANGED <<Tests, Log, ctxCanceled, nextRun, runs, task,
                   http, resp, lock, nextCycle, tresp>>

\* (variant: Start does not call Stop first)
StartWithoutStop(c) ==
    /\ Idle(c)
    /\ nextCycle + Cardinality(Starting) < MaxCycles
    /\ callers' = [callers EXCEPT ![c].pc = "start"]
    /\ UNCHANGED <<Tests, Log, ctxCanceled, nextRun, runs, task, crashed,
                   http, resp, tick, lock, cycles, nextCycle, tresp>>

\* Start, first half: tick.Stop().
Start(c) ==
    /\ Idle(c)
    /\ nextCycle + Cardinality(Starting) < MaxCycles
    /\ StopBody
    /\ callers' = [callers EXCEPT ![c].pc = "start"]
    /\ UNCHANGED <<Tests, Log, ctxCanceled, nextRun, runs, task,
                   http, resp, lock, nextCycle, tresp>>

\* (variant: Start also clears tick.results)
StartGoResets(c) ==
    /\ callers[c].pc = "start"
    /\ LockFree
    /\ nextCycle' = nextCycle + 1
    /\ cycles' = [cycles EXCEPT ![nextCycle + 1] =
          [NoCycle EXCEPT !.pc = "select", !.canceled = ctxCanceled]]
    /\ tick' = [results |-> 0, cancel |-> nextCycle + 1]
    /\ callers' = [callers EXCEPT ![c].pc = "idle"]
    /\ UNCHANGED <<Tests, Log, ctxCanceled, nextRun, runs, task, crashed,
                   http, resp, lock, tresp>>

\* (variant: the new goroutine calls runOnce before it waits for a tick)
StartGoRunsFirst(c) ==
    /\ callers[c].pc = "start"
    /\ LockFree
    /\ nextCycle' = nextCycle + 1
    /\ RunCall(nextRun + 1, [kind |-> "cycle", id |-> nextCycle + 1])
    /\ cycles' = [cycles EXCEPT ![nextCycle + 1] =
          [NoCycle EXCEPT !.pc = "run", !.canceled = ctxCanceled,
                          !.run = nextRun + 1]]
    /\ tick' = [tick EXCEPT !.cancel = nextCycle + 1]
    /\ callers' = [callers EXCEPT ![c].pc = "idle"]
    /\ UNCHANGED <<Tests, Log, ctxCanceled, crashed, http, resp, lock, tresp>>

\* Start, second half: under the lock, ctx, tick.cancel =
\* context.WithCancel(ctx) and go tick.run(ctx); the new goroutine makes its
\* time.Ticker and waits in its select.
StartGo(c) ==
    /\ callers[c].pc = "start"
    /\ LockFree
    /\ nextCycle' = nextCycle + 1
    /\ cycles' = [cycles EXCEPT ![nextCycle + 1] =
          [NoCycle EXCEPT !.pc = "select", !.canceled = ctxCanceled]]
    /\ tick' = [tick EXCEPT !.cancel = nextCycle + 1]
    /\ callers' = [callers EXCEPT ![c].pc = "idle"]
    /\ UNCHANGED <<Tests, Log, ctxCanceled, nextRun, runs, task, crashed,
                   http, resp, lock, tresp>>

\* (variant: a tick that fires during a run starts another Run beside it)
TickSpawns(k) ==
    /\ cycles[k].pc \in {"select", "run"}
    /\ ~cycles[k].pending
    /\ IF cycles[k].pc = "run" /\ nextRun < MaxRuns
       THEN /\ RunCall(nextRun + 1, [kind |-> "cycle", id |-> k])
            /\ cycles' = cycles
       ELSE /\ cycles' = [cycles EXCEPT ![k].pending = TRUE]
            /\ UNCHANGED <<nextRun, runs, task>>
    /\ UNCHANGED <<Tests, Log, ctxCanceled, crashed,
                   http, resp, tick, lock, nextCycle, callers, tresp>>

\* The time.Ticker of run fires: tck.C holds one tick; a tick that finds it
\* full is dropped.
Tick(k) ==
    /\ cycles[k].pc \in {"select", "run"}
    /\ ~cycles[k].pending
    /\ cycles' = [cycles EXCEPT ![k].pending = TRUE]
    /\ UNCHANGED <<Tests, Log, ctxCanceled, nextRun, runs, task, crashed,
                   http, resp, tick, lock, nextCycle, callers, tresp>>

\* (variant: runOnce takes the lock before it calls Run)
CycleTickLocked(k) ==
    /\ cycles[k].pc = "select"
    /\ cycles[k].pending
    /\ LockFree
    /\ lock' = [lock EXCEPT !.w = TRUE]
    /\ RunCall(nextRun + 1, [kind |-> "cycle", id |-> k])
    /\ cycles' = [cycles EXCEPT ![k].pending = FALSE, ![k].pc = "run",
                                ![k].run = nextRun + 1]
    /\ UNCHANGED <<Tests, Log, ctxCanceled, crashed, http, resp,
                   tick, nextCycle, callers, tresp>>

\* case <-tck.C: runOnce calls tick.Run().
CycleTick(k) ==
    /\ cycles[k].pc = "select"
    /\ cycles[k].pending
    /\ RunCall(nextRun + 1, [kind |-> "cycle", id |-> k])
    /\ cycles' = [cycles EXCEPT ![k].pending = FALSE, ![k].pc = "run",
                                ![k].run = nextRun + 1]
    /\ UNCHANGED <<Tests, Log, ctxCanceled, crashed, http, resp,
                   tick, lock, nextCycle, callers, tresp>>

\* (variant: the map Run is filling is stored before Run has returned)
RunOnceEarly(k) ==
    /\ cycles[k].pc = "run"
    /\ LockFree
    /\ tick' = [tick EXCEPT !.results = cycles[k].run]
    /\ cycles' = [cycles EXCEPT
          ![k].pc = IF Returned(cycles[k].run) THEN "select" ELSE "run",
          ![k].run = IF Returned(cycles[k].run) THEN 0 ELSE @]
    /\ UNCHANGED <<Tests, Log, ctxCanceled, nextRun, runs, task, crashed,
                   http, resp, lock, nextCycle, callers, tresp>>

\* runOnce after Run has returned r: under the lock, tick.results = r; then
\* back to the select.
RunOnce(k) ==
    /\ cycles[k].pc = "run"
    /\ Returned(cycles[k].run)
    /\ LockFree
    /\ tick' = [tick EXCEPT !.results = cycles[k].run]
    /\ cycles' = [cycles EXCEPT ![k].pc = "select", ![k].run = 0]
    /\ UNCHANGED <<Tests, Log, ctxCanceled, nextRun, runs, task, crashed,
                   http, resp, lock, nextCycle, callers, tresp>>

\* case <-done: tck.Stop(); return (the time.Ticker is left to the garbage
\* collector with whatever tck.C holds).
CycleDone(k) ==
    /\ cycles[k].pc = "select"
    /\ cycles[k].canceled
    /\ cycles' = [cycles EXCEPT ![k].pc = "done", ![k].pending = FALSE]
    /\ UNCHANGED <<Tests, Log, ctxCanceled, nextRun, runs, task, crashed,
                   http, resp, tick, lock, nextCycle, callers, tresp>>

\* (variant: tick.results itself is returned, not a copy of it)
GetResultsNoCopy(c) ==
    /\ Idle(c)
    /\ ~lock.w
    /\ callers' = [callers EXCEPT ![c].ref =
                      IF tick.results = 0 THEN -1 ELSE tick.results,
                                  ![c].copy = EmptyResults]
    /\ UNCHANGED <<Tests, Log, ctxCanceled, nextRun, runs, task, crashed,
                   http, resp, tick, lock, cycles, nextCycle, tresp>>

\* GetResults: under the read lock, a new map gets every entry of
\* tick.results, and is returned.
GetResults(c) ==
    /\ Idle(c)
    /\ ~lock.w
    /\ callers' = [callers EXCEPT ![c].ref = -1,
          ![c].copy = [k \in DOMAIN Deref(tick.results) |->
                          Deref(tick.results)[k]]]
    /\ UNCHANGED <<Tests, Log, ctxCanceled, nextRun, runs, task, crashed,
                   http, resp, tick, lock, cycles, nextCycle, tresp>>

\* What a caller writes into a map it got from GetResults.
Tampered == Result(TRUE, "tampered", "")

\* The caller writes an entry of the map GetResults returned to it (once
\* per map it got).
Mutate(c, n) ==
    /\ Idle(c)
    /\ callers[c].ref # 0
    /\ n \in DOMAIN Held(c)
    /\ \A k \in DOMAIN Held(c) : Held(c)[k] # Tampered
    /\ IF callers[c].ref = -1
       THEN /\ callers' = [callers EXCEPT ![c].copy = MapSet(@, n, Tampered)]
            /\ runs' = runs
       ELSE /\ runs' = [runs EXCEPT ![callers[c].ref].results =
                           MapSet(@, n, Tampered)]
            /\ callers' = callers
    /\ UNCHANGED <<Tests, Log, ctxCanceled, nextRun, task, crashed,
                   http, resp, tick, lock, cycles, nextCycle, tresp>>

\* (variant: WriteHeader(500) is never called, the status stays 200)
TickerServeHTTPAlwaysOK(c) ==
    /\ Idle(c)
    /\ ~lock.w
    /\ tresp' = [status |-> 200, body |-> Marshal(Deref(tick.results)),
                 req |-> 1]
    /\ UNCHANGED <<Tests, Log, ctxCanceled, nextRun, runs, task, crashed,
                   http, resp, tick, lock, cycles, nextCycle, callers>>

\* Ticker.ServeHTTP: under the read lock, res is tick.results, or an empty
\* map for nil; the status from res.Failed(), the body from
\* json.Marshal(res).
TickerServeHTTP(c) ==
    /\ Idle(c)
    /\ ~lock.w
    /\ LET res == Deref(tick.results)
       IN  tresp' = [status |-> IF Failed(res) THEN 500 ELSE 200,
                     body |-> Marshal(res),
                     req |-> 1]
    /\ UNCHANGED <<Tests, Log, ctxCanceled, nextRun, runs, task, crashed,
                   http, resp, tick, lock, cycles, nextCycle, callers>>

\* ---------------------------------------------------------- specification
Init ==
    /\ Tests \in TestFuncs
    /\ Log \in BOOLEAN
    /\ ctxCanceled = FALSE
    /\ nextRun = 0
    /\ runs = [r \in RunIds |-> NoRun]
    /\ task = [r \in RunIds |-> [n \in Names |-> "none"]]
    /\ crashed = FALSE
    /\ http = [pc |-> "idle", run |-> 0, req |-> 0]
    /\ resp = NoResp
    /\ tick = [results |-> 0, cancel |-> 0]
    /\ lock = [w |-> FALSE, r |-> 0]
    /\ cycles = [k \in CycleIds |-> NoCycle]
    /\ nextCycle = 0
    /\ callers = [c \in Callers |-> NoCaller]
    /\ tresp = NoResp

Next ==
    \/ TesterServeHTTP
    \/ TesterRespond
    \/ CancelContext
    \/ \E r \in RunIds :
          \/ Deadline(r)
          \/ CollectDone(r)
          \/ LogReturn(r)
          \/ \E n \in Names :
                \/ TaskReturn(r, n)
                \/ TaskPanic(r, n)
                \/ Collect(r, n)
                \/ Fill(r, n)

Spec == Init /\ [][Next]_vars

\* A Ticker whose Context is nil (never canceled), with no logger and one
\* test that returns nil (its Outcome is healthy when it reports in time and
\* the deadline Outcome otherwise).
TickerInit ==
    /\ Init
    /\ Tests = [n \in {"disk"} |-> [kind |-> "ok", text |-> ""]]
    /\ Log = FALSE

\* The same Ticker with two tests, one returning nil and one an error.
SnapInit ==
    /\ Init
    /\ Tests = [n \in Names |->
                  IF n = "disk" THEN [kind |-> "ok", text |-> ""]
                  ELSE [kind |-> "err", text |-> "unreachable"]]
    /\ Log = FALSE

CycleStep(k) ==
    \/ Tick(k)
    \/ CycleTick(k)
    \/ RunOnce(k)
    \/ CycleDone(k)

RunStep(r) ==
    \/ Deadline(r)
    \/ CollectDone(r)
    \/ \E n \in Names :
          \/ TaskReturn(r, n)
          \/ Collect(r, n)
          \/ Fill(r, n)

CallerStep(c) ==
    \/ Start(c)
    \/ Stop(c)
    \/ StartGo(c)
    \/ GetResults(c)
    \/ TickerServeHTTP(c)
    \/ \E n \in Names : Mutate(c, n)

\* Two goroutines call the Ticker's methods concurrently.
TickerNext ==
    \/ \E k \in CycleIds : CycleStep(k)
    \/ \E r \in RunIds : RunStep(r)
    \/ \E c \in Callers : CallerStep(c)

TickerSpec == TickerInit /\ [][TickerNext]_vars

\* One goroutine starts and stops the Ticker, one call after the other.
SeqNext ==
    \/ \E k \in CycleIds : CycleStep(k)
    \/ \E r \in RunIds : RunStep(r)
    \/ Start("a")
    \/ StartGo("a")
    \/ Stop("a")

SeqSpec == TickerInit /\ [][SeqNext]_vars

\* Two goroutines call Start and Stop concurrently.
RaceNext ==
    \/ \E k \in CycleIds : CycleStep(k)
    \/ \E r \in RunIds : RunStep(r)
    \/ \E c \in Callers :
          \/ Start(c)
          \/ StartGo(c)
          \/ Stop(c)

RaceSpec == TickerInit /\ [][RaceNext]_vars

\* Goroutine "a" starts and stops the Ticker while goroutine "b" takes
\* snapshots (GetResults, Ticker.ServeHTTP) and calls Stop.
LockNext ==
    \/ \E k \in CycleIds : CycleStep(k)
    \/ \E r \in RunIds : RunStep(r)
    \/ Start("a")
    \/ StartGo("a")
    \/ Stop("a")
    \/ Stop("b")
    \/ GetResults("b")
    \/ TickerServeHTTP("b")

LockSpec == TickerInit /\ [][LockNext]_vars

\* The two-test Ticker (one test fails) is started by goroutine "a", while
\* goroutine "b" takes snapshots with GetResults and Ticker.ServeHTTP.
FirstNext ==
    \/ \E k \in CycleIds : CycleStep(k)
    \/ \E r \in RunIds : RunStep(r)
    \/ Start("a")
    \/ StartGo("a")
    \/ GetResults("b")
    \/ TickerServeHTTP("b")

FirstSpec == SnapInit /\ [][FirstNext]_vars

\* The Ticker is started by goroutine "a", which also sends requests to
\* Ticker.ServeHTTP, while requests are served by Tester.ServeHTTP of the
\* embedded Tester.
HTTPNext ==
    \/ \E k \in CycleIds : CycleStep(k)
    \/ \E r \in RunIds : RunStep(r)
    \/ Start("a")
    \/ StartGo("a")
    \/ TickerServeHTTP("a")
    \/ TesterServeHTTP
    \/ TesterRespond

HTTPSpec == TickerInit /\ [][HTTPNext]_vars

\* The two-test Ticker is started (and started again) by goroutine "a",
\* while goroutine "b" takes snapshots with GetResults.
SnapNext ==
    \/ \E k \in CycleIds : CycleStep(k)
    \/ \E r \in RunIds : RunStep(r)
    \/ Start("a")
    \/ StartGo("a")
    \/ GetResults("b")

SnapSpec == SnapInit /\ [][SnapNext]_vars

\* The Ticker is started by goroutine "a"; both goroutines take snapshots
\* with GetResults and write into the maps they got.
CopyNext ==
    \/ \E k \in CycleIds : CycleStep(k)
    \/ \E r \in RunIds : RunStep(r)
    \/ Start("a")
    \/ StartGo("a")
    \/ \E c \in Callers :
          \/ GetResults(c)
          \/ \E n \in Names : Mutate(c, n)

CopySpec == TickerInit /\ [][CopyNext]_vars

\* The coordinator and the deadline timer are scheduled fairly, and a call
\* of the logger returns; the probe goroutines get no fairness.
FairSpec ==
    /\ Init /\ [][Next]_vars
    /\ WF_vars(\E r \in RunIds : Deadline(r))
    /\ WF_vars(\E r \in RunIds : CollectDone(r))
    /\ WF_vars(\E r \in RunIds : \E n \in Names : Fill(r, n))
    /\ WF_vars(\E r \in RunIds : LogReturn(r))

\* As FairSpec, but a call of the logger need not return: the logger is the
\* caller's code, called by the coordinator itself (t.Log(...) in Run).
SlowLogSpec ==
    /\ Init /\ [][Next]_vars
    /\ WF_vars(\E r \in RunIds : Deadline(r))
    /\ WF_vars(\E r \in RunIds : CollectDone(r))
    /\ WF_vars(\E r \in RunIds : \E n \in Names : Fill(r, n))

\* Every goroutine is scheduled fairly: the coordinator, the timer, the
\* logger, and every probe goroutine, whose function returns or panics and
\* whose send is taken whenever the coordinator is in its select.
AllFairSpec ==
    /\ SlowLogSpec
    /\ WF_vars(\E r \in RunIds : LogReturn(r))
    /\ \A r \in RunIds : \A n \in Names :
          /\ WF_vars(TaskReturn(r, n))
          /\ WF_vars(TaskPanic(r, n))
          /\ WF_vars(Collect(r, n))

\* ------------------------------------------------------------------ claims

\* The report of probe n was received by the coordinator of run r.
Collected(r, n) == task[r][n] = "done" /\ Recovered(Tests[n])

Unhealthy(m) == \E k \in DOMAIN m : ~m[k].Healthy

\* C1: the Results returned by Run has exactly the registered names as keys.
C1_Completeness ==
    \A r \in RunIds : Returned(r) => DOMAIN runs[r].results = DOMAIN Tests

\* A run returned at the deadline: one probe reported, the other never did.
C1_Witness ==
    \E r \in RunIds :
        /\ Returned(r)
        /\ DOMAIN Tests = Names
        /\ Collected(r, "disk")
        /\ task[r]["net"] = "running"
        /\ runs[r].err = DeadlineExceeded

\* C2: a Run that has reached its collecting loop returns, with no step of
\* any probe goroutine needed (probes have no fairness in FairSpec).
C2_DeadlineBound ==
    \A r \in RunIds : (runs[r].pc = "select") ~> Returned(r)

\* A run returned while none of its two probes ever returned.
C2_Witness ==
    \E r \in RunIds :
        /\ Returned(r)
        /\ DOMAIN Tests = Names
        /\ \A n \in Names : task[r][n] = "running"
        /\ runs[r].err = DeadlineExceeded

\* C3 as stated: a panicking probe's Outcome in the returned Results is
\* unhealthy with a non-empty Error (the stack trace).
C3_PanicHasDiagnostic ==
    \A r \in RunIds : \A n \in DOMAIN Tests :
        (Returned(r) /\ Panics(Tests[n])) =>
            /\ ~runs[r].results[n].Healthy
            /\ runs[r].results[n].Error # ""

\* C3 amended: a panic never ends the process; a panicking probe's Outcome
\* is unhealthy, with the stack trace when its report was collected and the
\* deadline Outcome otherwise; every other probe's Outcome is decided by its
\* own behaviour and by whether its own report was collected.
C3_NonPropagation ==
    /\ ~crashed
    /\ \A r \in RunIds : \A n \in DOMAIN Tests :
          Returned(r) =>
            LET x == runs[r].results[n]
            IN  /\ Panics(Tests[n]) =>
                      /\ ~x.Healthy
                      /\ Collected(r, n) => x.Error = StackTrace /\ x.Message # ""
                      /\ ~Collected(r, n) => x = DeadlineResult(runs[r].err)
                /\ ~Panics(Tests[n]) =>
                      /\ Collected(r, n) =>
                            x = Result(Tests[n].kind = "ok", Tests[n].text, "")
                      /\ ~Collected(r, n) => x = DeadlineResult(runs[r].err)

\* A run returned with the panic of "disk" collected and "net" healthy.
C3_Witness ==
    \E r \in RunIds :
        /\ Returned(r)
        /\ DOMAIN Tests = Names
        /\ Tests["disk"].kind = "panicStr"
        /\ Tests["net"].kind = "ok"
        /\ Collected(r, "disk")
        /\ Collected(r, "net")
        /\ runs[r].results["net"].Healthy

\* C4: a collected report of a probe that returned nil is recorded as
\* healthy with empty Message and Error, one of a probe that returned an
\* error as unhealthy with the error's text as Message; {disk: nil,
\* net: "unreachable"} both collected gives exactly those two Outcomes; and
\* no Results holds a healthy Outcome with a Message or an Error.
C4_OutcomeMapping ==
    \A r \in RunIds :
        /\ \A n \in DOMAIN runs[r].results :
              LET x == runs[r].results[n]
              IN  /\ (Collected(r, n) /\ Tests[n].kind = "ok") =>
                        x.Healthy /\ x.Message = "" /\ x.Error = ""
                  /\ (Collected(r, n) /\ Tests[n].kind = "err") =>
                        ~x.Healthy /\ x.Message = Tests[n].text
                  /\ x.Healthy => x.Message = "" /\ x.Error = ""
        /\ ( /\ Returned(r)
             /\ DOMAIN Tests = Names
             /\ Tests["disk"].kind = "ok"
             /\ Tests["net"] = [kind |-> "err", text |-> "unreachable"]
             /\ Collected(r, "disk") /\ Collected(r, "net") )
           => runs[r].results =
                 [n \in Names |-> IF n = "disk" THEN Result(TRUE, "", "")
                                  ELSE Result(FALSE, "unreachable", "")]

\* The run of {disk: nil, net: "unreachable"} returned with both collected.
C4_Witness ==
    \E r \in RunIds :
        /\ Returned(r)
        /\ DOMAIN Tests = Names
        /\ Tests["disk"].kind = "ok"
        /\ Tests["net"] = [kind |-> "err", text |-> "unreachable"]
        /\ Collected(r, "disk") /\ Collected(r, "net")
        /\ runs[r].err = ""

\* C5: Failed() is true exactly of the Results that hold an unhealthy entry
\* (so false of the empty one), the status written from it says the same,
\* and Run with no tests returns the empty Results.
C5_AggregatePredicate ==
    /\ \A r \in RunIds :
          /\ Failed(runs[r].results) <=> Unhealthy(runs[r].results)
          /\ (Returned(r) /\ DOMAIN Tests = {}) =>
                runs[r].results = EmptyResults /\ ~Failed(runs[r].results)
    /\ ~Failed(EmptyResults)
    /\ (http.pc = "idle" /\ http.req > 0) =>
          (resp.status = 500 <=> Unhealthy(runs[http.run].results))

\* Failed() was applied to a Results with a healthy and an unhealthy entry.
C5_Witness ==
    /\ http.pc = "idle" /\ http.req > 0
    /\ resp.status = 500
    /\ \E a, b \in DOMAIN runs[http.run].results :
          runs[http.run].results[a].Healthy /\ ~runs[http.run].results[b].Healthy

\* The status a serialized Results calls for.
StatusOf(body) ==
    IF \E k \in DOMAIN body : <<"healthy", FALSE>> \in body[k]
    THEN 500 ELSE 200

\* C6: a response of Tester.ServeHTTP carries the Results of a Run called
\* for that very request, and the status of either handler is 500 exactly
\* when the body holds an unhealthy Outcome, 200 otherwise.
C6_HTTPVerdict ==
    /\ (http.pc = "idle" /\ http.req > 0) =>
          /\ resp.req = http.req
          /\ \E r \in RunIds :
                /\ runs[r].owner = [kind |-> "http", id |-> resp.req]
                /\ Returned(r)
                /\ resp.body = Marshal(runs[r].results)
          /\ resp.status = StatusOf(resp.body)
    /\ tresp.req > 0 => tresp.status = StatusOf(tresp.body)

\* Tester.ServeHTTP answered 500 for a run cut by the deadline, and
\* Ticker.ServeHTTP answered 200 with the cached healthy Results.
C6_Witness ==
    /\ http.pc = "idle" /\ http.req > 0
    /\ resp.status = 500
    /\ tresp.req > 0
    /\ tresp.status = 200
    /\ DOMAIN tresp.body # {}

\* The Results a background run has returned in full.
CompleteRuns ==
    { runs[r].results : r \in { x \in RunIds :
          /\ runs[x].owner.kind = "cycle"
          /\ Returned(x)
          /\ DOMAIN runs[x].results = DOMAIN Tests } }

Untouched(m) == \A k \in DOMAIN m : m[k] # Tampered

\* C7: a map returned by GetResults is the empty one or the complete
\* Results of one returned background run, and it is the one cached at the
\* time: that of the last run written before the call, also while another
\* run is in progress.
C7_SnapshotIsolation ==
    /\ [](\A c \in Callers :
            (callers[c].ref # 0 /\ Untouched(Held(c))) =>
                Held(c) \in {EmptyResults} \cup CompleteRuns)
    /\ [][\A c \in Callers :
            (callers'[c] # callers[c] /\ callers'[c].copy # callers[c].copy
               /\ Untouched(callers'[c].copy)) =>
                /\ callers'[c].copy = Deref(tick.results)
                /\ tick.results # 0 =>
                      runs[tick.results].results \in CompleteRuns]_vars

\* A caller holds the complete Results of the first run while the second
\* run has collected one of its two reports.
C7_Witness ==
    \E c \in Callers :
        /\ callers[c].ref = -1
        /\ runs[1].owner.kind = "cycle"
        /\ callers[c].copy = runs[1].results
        /\ DOMAIN callers[c].copy = Names
        /\ tick.results = 1
        /\ runs[2].pc = "select"
        /\ runs[2].count = 1

\* The background goroutines whose cancellation has not been signalled.
Active == { k \in CycleIds : cycles[k].pc # "none" /\ ~cycles[k].canceled }

C9_NoRunAfterStop ==
    [][\A k \in CycleIds :
          cycles[k].canceled =>
              ~(cycles[k].pc = "select" /\ cycles'[k].pc = "run")]_vars

\* C10: GetResults returns a map of its own: a caller's write into it
\* changes neither the cached Results (nor any map a Run returned) nor the
\* map another caller got, and a background write changes no map returned
\* before.
C10_DefensiveCopy ==
    [][/\ \A c \in Callers :
             (Untouched(Held(c)) /\ ~Untouched(Held(c)')) =>
                 /\ Deref(tick.results)' = Deref(tick.results)
                 /\ \A r \in RunIds : runs'[r].results = runs[r].results
                 /\ \A d \in Callers \ {c} : Held(d)' = Held(d)
       /\ tick'.results # tick.results =>
             \A c \in Callers : Held(c)' = Held(c)]_vars

\* Both callers hold the cached Results of run 1; one of them has written
\* into its map, the other's and the cached one are as returned.
C10_Witness ==
    /\ tick.results = 1
    /\ callers["a"].ref = -1 /\ ~Untouched(callers["a"].copy)
    /\ callers["b"].ref = -1 /\ callers["b"].copy = runs[1].results
    /\ DOMAIN runs[1].results = DOMAIN Tests
    /\ Untouched(runs[1].results)

\* C11: in a returned run of a Tester with a logger, the logger was called
\* exactly once for each test whose Outcome in the returned Results is
\* unhealthy (reported, recovered from a panic, or written by the deadline
\* branch) and never for a test whose Outcome is healthy.
C11_CallbackCount ==
    \A r \in RunIds :
        (Returned(r) /\ Log) =>
            \A n \in DOMAIN Tests :
                runs[r].logged[n] = IF runs[r].results[n].Healthy THEN 0 ELSE 1

\* A run with a logger returned at the deadline: "disk" reported healthy
\* (no call), "net" never reported (one call from the deadline branch).
C11_Witness ==
    \E r \in RunIds :
        /\ Returned(r) /\ Log
        /\ DOMAIN Tests = Names
        /\ Collected(r, "disk") /\ runs[r].results["disk"].Healthy
        /\ ~Collected(r, "net") /\ ~runs[r].results["net"].Healthy
        /\ runs[r].logged = [n \in Names |-> IF n = "net" THEN 1 ELSE 0]

\* C12 as stated: a Run whose coordinator is inside a call of the logger
\* returns, whether or not that call ever returns (the logger has no
\* fairness in SlowLogSpec).
C12_CallbackNeverBlocks ==
    \A r \in RunIds : (runs[r].pc = "logging") ~> Returned(r)

\* C13: Stop never panics and leaves the lock free; it leaves tick.results,
\* every run and every goroutine but the one of the stored CancelFunc as
\* they are, and leaves no CancelFunc stored; on a Ticker with no CancelFunc
\* stored (never started, or stopped) it changes nothing at all, so a
\* second Stop in a row is without effect, also when a Start is in progress.
C13_StopIdempotence ==
    /\ [](~crashed /\ LockFree)
    /\ [][\A c \in Callers :
            Stop(c) =>
                /\ tick'.results = tick.results
                /\ tick'.cancel = 0
                /\ runs' = runs /\ task' = task /\ nextCycle' = nextCycle
                /\ \A k \in CycleIds : k # tick.cancel => cycles'[k] = cycles[k]
                /\ tick.cancel = 0 => (tick' = tick /\ cycles' = cycles)]_vars

\* Goroutine "b" has returned from Stop while "a" is inside Start (past its
\* own tick.Stop(), not yet at Lock) with the first background goroutine
\* cancelled: one of the two Stop bodies found no CancelFunc.
C13_Witness ==
    /\ callers["a"].pc = "start"
    /\ callers["b"].pc = "stopped"
    /\ nextCycle = 1
    /\ cycles[1].canceled
    /\ tick.cancel = 0

\* C14 as stated: runs of two background goroutines are never in flight
\* together, and a background goroutine writes tick.results only while no
\* later one has been started.
C14_NoOverlappingCycles ==
    /\ [](Cardinality({k \in CycleIds : cycles[k].pc = "run"}) <= 1)
    /\ [][\A k \in CycleIds :
            (cycles[k].pc = "run" /\ cycles'[k].pc = "select") =>
                \A j \in CycleIds : j > k => cycles[j].pc = "none"]_vars

\* Every registered probe of run r has reported to the coordinator.
AllCollected(r) == \A n \in DOMAIN Tests : Collected(r, n)

\* C15: two runs of the same Tester in which every probe's report was
\* collected return the same Results, whatever the order of the reports;
\* and within a run an entry once written is never changed by a later
\* arrival.
C15_OrderIndependence ==
    /\ [](\A r1, r2 \in RunIds :
            (Returned(r1) /\ AllCollected(r1) /\ Returned(r2) /\ AllCollected(r2))
                => runs[r1].results = runs[r2].results)
    /\ [][\A r \in RunIds : \A n \in DOMAIN runs[r].results :
            runs[r].pc # "returned" =>
                /\ n \in DOMAIN runs'[r].results
                /\ runs'[r].results[n] = runs[r].results[n]]_vars

\* Two runs of a Tester with two probes of different outcomes have both
\* returned before their deadline with both reports collected.
C15_Witness ==
    /\ DOMAIN Tests = Names
    /\ Tests["disk"].kind = "ok"
    /\ Tests["net"].kind = "err"
    /\ \A r \in {1, 2} :
          Returned(r) /\ AllCollected(r) /\ runs[r].err = ""

\* C16: once Run r has returned, nothing a probe goroutine does changes
\* what it returned, and the report of a goroutine of r that was not
\* collected is collected by no later Run: every entry of a Results is the
\* report of a goroutine of that same run, or the deadline Outcome.
C16_LateResultsDiscarded ==
    /\ [](\A r \in RunIds : \A n \in DOMAIN runs[r].results :
            \/ Collected(r, n) /\ runs[r].results[n] = Outcome(Tests[n])
            \/ /\ ~Collected(r, n)
               /\ runs[r].err # ""
               /\ runs[r].results[n] = DeadlineResult(runs[r].err))
    /\ [][\A r \in RunIds :
            Returned(r) =>
                /\ runs'[r] = runs[r]
                /\ \A n \in Names :
                      task[r][n] = "sending" => task'[r][n] = "sending"]_vars

\* The first run returned at its deadline without the report of "disk",
\* which its goroutine is still trying to send; the second run has
\* collected the report of its own "disk" goroutine and returned.
C16_Witness ==
    /\ Returned(1)
    /\ task[1]["disk"] = "sending"
    /\ runs[1].results["disk"] = DeadlineResult(DeadlineExceeded)
    /\ Returned(2)
    /\ Collected(2, "disk")
    /\ runs[2].results["disk"] = Outcome(Tests["disk"])

\* A Run called by a background goroutine has not returned yet.
InFlight == { r \in RunIds : runs[r].owner.kind = "cycle" /\ ~Returned(r) }

C18_CacheFrame ==
    [][(tick'.results # tick.results
           \/ Deref(tick.results)' # Deref(tick.results)) =>
          \E k \in CycleIds :
              /\ cycles[k].pc = "run"
              /\ Returned(cycles[k].run)
              /\ cycles'[k].pc = "select"
              /\ tick'.results = cycles[k].run
              /\ callers' = callers /\ tick'.cancel = tick.cancel]_vars

\* The Results of the first run are still cached, and "b" holds a copy of
\* them, after "b" has called Stop and "a" has started the Ticker again:
\* the first background goroutine has ended, the second waits for a tick.
C18_Witness ==
    /\ tick.results = 1
    /\ DOMAIN runs[1].results # {}
    /\ runs[1].owner = [kind |-> "cycle", id |-> 1]
    /\ cycles[1].pc = "done"
    /\ nextCycle = 2 /\ tick.cancel = 2
    /\ cycles[2].pc = "select" /\ cycles[2].run = 0
    /\ nextRun = 1
    /\ callers["a"].pc = "idle"
    /\ callers["b"].pc = "stopped"
    /\ callers["b"].ref = -1 /\ callers["b"].copy = runs[1].results

\* C19 as stated: a probe goroutine that has its report to send (its
\* function returned or its panic was recovered) ends, also when Run has
\* returned at the deadline before.
C19_NoLeakedTasks ==
    \A r \in RunIds : \A n \in Names :
        (task[r][n] = "sending") ~> (task[r][n] = "done")

\* C20 as stated: with Start and Stop called by concurrent goroutines, at
\* most one background goroutine is uncancelled at any time, and once Stop
\* has returned with no Start in progress (no CancelFunc is stored) every
\* background goroutine ever started has been cancelled, so that it ends.
C20_EveryCycleStoppable ==
    /\ Cardinality(Active) <= 1
    /\ (tick.cancel = 0 /\ Starting = {}) => Active = {}

RunsOf(k) == { r \in RunIds : runs[r].owner = [kind |-> "cycle", id |-> k] }

\* C22: a background goroutine has at most one Run in flight, the one it
\* is waiting for; a tick that fires during it starts nothing and is kept
\* as the one pending tick; the goroutine begins a Run only after it has
\* stored the Results of its previous one, so it stores them in the order
\* in which its runs began.
C22_RunsSerialized ==
    /\ [](\A k \in CycleIds :
            /\ Cardinality({r \in RunsOf(k) : ~Returned(r)}) <= 1
            /\ \A r \in RunsOf(k) : ~Returned(r) =>
                  cycles[k].pc = "run" /\ cycles[k].run = r)
    /\ [][\A k \in CycleIds :
            /\ (cycles[k].pc = "run" /\ cycles'[k].pending # cycles[k].pending) =>
                  /\ cycles'[k].pending
                  /\ nextRun' = nextRun /\ runs' = runs
                  /\ cycles'[k].run = cycles[k].run
            /\ RunsOf(k)' # RunsOf(k) =>
                  /\ cycles[k].pc = "select" /\ cycles[k].run = 0
                  /\ \A q \in RunsOf(k) : Returned(q)
            /\ (cycles[k].pc = "run" /\ cycles'[k].pc = "select") =>
                  /\ tick'.results = cycles[k].run
                  /\ \A q \in RunsOf(k) : q <= cycles[k].run]_vars

\* The first background goroutine has stored its first Run's Results and
\* is in its second Run, with one tick that fired meanwhile pending.
C22_Witness ==
    /\ RunsOf(1) = {1, 2}
    /\ Returned(1)
    /\ tick.results = 1
    /\ cycles[1].pc = "run" /\ cycles[1].run = 2
    /\ runs[2].pc = "select"
    /\ cycles[1].pending

=============================================================================
